---- MODULE Spec2Model ----
(***************************************************************************)
(* InstaDocs: completeness-aware retrieval and answering.                  *)
(*                                                                         *)
(* The module models three parts of the backend:                           *)
(*   - answer generation (LLMService.generate_answer, the providers and    *)
(*     the AnswerResponse schema),           specification SpecAnswer;     *)
(*   - the feedback store (FeedbackService), specification SpecFeedback;   *)
(*   - documents and the vector index (main.py's upload, delete and search *)
(*     handlers, DocumentService, EmbeddingService), specification         *)
(*     SpecDocs.                                                           *)
(*                                                                         *)
(* Text is a sequence of tokens.  A token is a record [t, v]: t names the  *)
(* piece of text the code's string operations look for, v tells words and  *)
(* numbers apart.  Numbers with two decimals are integers in hundredths,   *)
(* relevance scores are integers in thousandths, a confidence is an exact  *)
(* fraction [n, d].                                                        *)
(***************************************************************************)
EXTENDS Integers, Sequences, FiniteSets, TLC

(***************************************************************************)
(* Bounds of the model.                                                    *)
(***************************************************************************)
MaxChunks == 2        \* chunks in one retrieval context handed to generate_answer
MaxStores == 2        \* store_feedback calls that are accepted and saved
MaxDocs == 2          \* documents ever uploaded (document ids ever drawn)
MaxChunksPerDoc == 2  \* chunks the splitter makes of one document

(***************************************************************************)
(* Tokens.                                                                 *)
(***************************************************************************)
Tok(t) == [t |-> t, v |-> 0]
W(k) == [t |-> "w", v |-> k]               \* an ordinary word, k tells words apart
Num(h) == [t |-> "NUM", v |-> h]           \* a decimal number, in hundredths
NL == Tok("NL")                            \* "\n"
CTX == Tok("CTX")                          \* "Context:\n"
QSEP == Tok("QSEP")                        \* "\n\nQuestion: "
NRC == Tok("NRC")                          \* "No relevant context found in the knowledge base."
SRC == Tok("SRC")                          \* "[Source <idx>", only ever at the start of a line
COLON == Tok("COLON")                      \* ": "
DASH == Tok("DASH")                        \* " - "
PAGE == Tok("PAGE")                        \* "Page <page> ("
REL == Tok("REL")                          \* "Relevance: "
RELW == Tok("RELW")                        \* "Relevance", what is left of REL before its ": "
RPAREN == Tok("RPAREN")                    \* ")"
RBRACK == Tok("RBRACK")                    \* "]"
SP == Tok("SP")                            \* a character of whitespace

(***************************************************************************)
(* Python's string operations, on token sequences.                         *)
(***************************************************************************)
Has(s, t) == \E i \in 1..Len(s) : s[i].t = t

FirstAt(s, t) == CHOOSE i \in 1..Len(s) : s[i].t = t /\ \A j \in 1..(i - 1) : s[j].t # t

LastAt(s, t) == CHOOSE i \in 1..Len(s) : s[i].t = t /\ \A j \in (i + 1)..Len(s) : s[j].t # t

\* s.split(sep)[-1]
SplitLast(s, t) == IF Has(s, t) THEN SubSeq(s, LastAt(s, t) + 1, Len(s)) ELSE s

\* s.split(sep)[0]
SplitFirst(s, t) == IF Has(s, t) THEN SubSeq(s, 1, FirstAt(s, t) - 1) ELSE s

\* s.split(sep), all the pieces
RECURSIVE Split(_, _)
Split(s, t) ==
    IF Has(s, t)
    THEN <<SubSeq(s, 1, FirstAt(s, t) - 1)>> \o Split(SubSeq(s, FirstAt(s, t) + 1, Len(s)), t)
    ELSE <<s>>

\* "Relevance: " ends in ": ", so a split on ": " also cuts there and leaves "Relevance"
RECURSIVE ExpandRel(_)
ExpandRel(s) ==
    IF s = <<>> THEN <<>>
    ELSE (IF Head(s).t = "REL" THEN <<RELW, COLON>> ELSE <<Head(s)>>) \o ExpandRel(Tail(s))

\* sep.join(ss)
RECURSIVE Join(_, _)
Join(ss, sep) ==
    IF ss = <<>> THEN <<>>
    ELSE IF Len(ss) = 1 THEN Head(ss)
    ELSE Head(ss) \o sep \o Join(Tail(ss), sep)

(***************************************************************************)
(* Fractions.  A confidence is [n |-> numerator, d |-> denominator > 0].   *)
(***************************************************************************)
Frac(n, d) == [n |-> n, d |-> d]
FLess(a, b) == a.n * b.d < b.n * a.d
FLeq(a, b) == a.n * b.d <= b.n * a.d
FEq(a, b) == a.n * b.d = b.n * a.d
FMin(a, b) == IF FLess(b, a) THEN b ELSE a
Hundredths(h) == Frac(h, 100)

Min(a, b) == IF a < b THEN a ELSE b

\* f"{x:.2f}" of a score in thousandths: the nearest hundredth
Round2(x) == (x + 5) \div 10

(***************************************************************************)
(* State.                                                                  *)
(***************************************************************************)
VARIABLES
    \* answer generation
    env,            \* which remote providers are configured and initialise: [openai, gemini, geni]
    provider,       \* LLMService.provider, the active provider's name
    query,          \* the query text of the request in hand
    context,        \* the retrieval context handed to generate_answer
    remote,         \* what the remote provider's generate_completion did in the last call
    response,       \* how the last generate_answer ended: a verdict or a raised error
    \* feedback store
    feedback_data,  \* FeedbackService.feedback_data, the in-memory list
    feedback_file,  \* the content of feedback.json
    fb_result,      \* how the last call of the FeedbackService ended
    assigned,       \* the feedback_ids the accepted store_feedback calls returned, in order
    recent,         \* what get_recent_feedback returned to the request in hand
    stats,          \* what get_feedback_stats returned to the request in hand
    clock,          \* what datetime.now() reads
    \* documents and the vector index
    metadata,       \* DocumentService.metadata: document id -> its record
    doc_dirs,       \* the document directories on disk
    index,          \* the collection's entries, in insertion order
    coll_dim,       \* the collection's dimension: that of the first vectors added
    use_openai,     \* EmbeddingService.use_openai
    next_doc,       \* the document ids drawn so far (uuid4 never repeats one)
    deleted,        \* the documents delete_document_chunks has run for
    last,           \* how the last upload, delete or search request ended
    req,            \* what the request in hand did with the embedder and the index
    demoted,        \* a remote embedding call of this EmbeddingService has failed
    \* the process and its files
    alive,          \* the server process is running
    partial,        \* the files that hold a write cut short
    inflight        \* the requests the event loop holds: request -> what is left of it

answerVars == <<env, provider, query, context, remote, response>>
feedbackVars == <<feedback_data, feedback_file, fb_result, assigned, recent, stats, clock>>
docVars == <<metadata, doc_dirs, index, coll_dim, use_openai, next_doc, deleted, last,
            req, demoted>>
procVars == <<alive, partial, inflight>>
vars == <<answerVars, feedbackVars, docVars, procVars>>

(***************************************************************************)
(* Raw provider results: the dict a provider's generate_completion         *)
(* returns.  keys holds the required keys that are present; None and the   *)
(* empty list of an optional field are both <<>>.                          *)
(***************************************************************************)
RequiredKeys == {"answer", "confidence", "sources_used", "is_complete", "reasoning"}

Priorities == {"high", "medium", "low"}

Suggestion(topic, priority) == [missing_topic |-> topic, priority |-> priority]

Raw(shape, keys, answer, confidence, sources, complete, missing, suggestions) ==
    [shape |-> shape, keys |-> keys, answer |-> answer, confidence |-> confidence,
     sources_used |-> sources, is_complete |-> complete,
     missing_information |-> missing, enrichment_suggestions |-> suggestions]

NoRaw == Raw("none", {}, "", Frac(0, 1), <<>>, FALSE, <<>>, <<>>)

(***************************************************************************)
(* LLMService._format_context and the user message of generate_answer.     *)
(***************************************************************************)
FormatEntry(ctx) ==
    <<SRC, COLON>> \o ctx.source
        \o <<DASH, PAGE, REL, Num(Round2(ctx.relevance_score)), RPAREN, RBRACK, NL>>
        \o ctx.content \o <<NL>>

FormatContext(ctxs) ==
    IF ctxs = <<>> THEN <<NRC>>
    ELSE Join([i \in 1..Len(ctxs) |-> FormatEntry(ctxs[i])], <<NL>>)

UserMessage(q, ctxs) == <<CTX>> \o FormatContext(ctxs) \o <<QSEP>> \o q

(***************************************************************************)
(* FallbackProvider.generate_completion                                    *)
(***************************************************************************)
\* the text between the last "Context:\n" and the first "\n\nQuestion:" after it
ContextText(um) == SplitFirst(SplitLast(um, "CTX"), "QSEP")

\* the text after the last "Question: "
QueryText(um) == SplitLast(um, "QSEP")

\* float(s): defined for exactly one number
IsFloat(s) == Len(s) = 1 /\ s[1].t = "NUM"

\* One "[Source" line of the loop.  acc = [sources, sum, count]; an exception
\* inside the try leaves what was done before it.
ScanLine(acc, line) ==
    IF line = <<>> \/ line[1].t # "SRC" THEN acc
    ELSE LET pieces == Split(ExpandRel(line), "COLON") IN
         IF Len(pieces) < 2 THEN acc                         \* IndexError
         ELSE LET source == SplitFirst(pieces[2], "DASH")
                  seen == \E i \in 1..Len(acc.sources) : acc.sources[i] = source
                  acc1 == [acc EXCEPT !.sources = IF seen THEN @ ELSE Append(@, source)]
              IN IF ~Has(line, "REL") THEN acc1
                 ELSE LET rel_str == SplitFirst(Split(line, "REL")[2], "RPAREN") IN
                      IF ~IsFloat(rel_str) THEN acc1          \* ValueError
                      ELSE [acc1 EXCEPT !.sum = @ + rel_str[1].v, !.count = @ + 1]

RECURSIVE ScanLines(_, _)
ScanLines(acc, lines) ==
    IF lines = <<>> THEN acc ELSE ScanLines(ScanLine(acc, Head(lines)), Tail(lines))

ConfidenceCap == 65      \* hundredths

FallbackGenerate(um) ==
    LET context_text == ContextText(um)
        q == QueryText(um)
    IN IF Has(context_text, "NRC")
       THEN Raw("dict", RequiredKeys, "no_context", Frac(1, 10), <<>>, FALSE,
                <<"Information about the query">>, <<Suggestion(q, "high")>>)
       ELSE LET acc == ScanLines([sources |-> <<>>, sum |-> 0, count |-> 0],
                                 Split(context_text, "NL"))
                avg_relevance == IF acc.count > 0 THEN Frac(acc.sum, 100 * acc.count)
                                 ELSE Frac(0, 1)
                confidence == FMin(avg_relevance, Hundredths(ConfidenceCap))
                is_complete == FLess(Frac(1, 2), confidence)
                answer == IF FLess(Frac(4, 10), confidence) THEN "excerpt" ELSE "hedge"
            IN Raw("dict", RequiredKeys, answer, confidence, acc.sources, is_complete,
                   IF is_complete THEN <<>> ELSE <<"More comprehensive information">>,
                   IF is_complete THEN <<>> ELSE <<Suggestion(q, "medium")>>)

(***************************************************************************)
(* LLMProviderFactory.create_from_env: OpenAI > Gemini > Geni > Fallback.  *)
(***************************************************************************)
CreateFromEnv(e) ==
    IF e.openai THEN "openai"
    ELSE IF e.gemini THEN "gemini"
    ELSE IF e.geni THEN "geni"
    ELSE "fallback"

(***************************************************************************)
(* schemas.py: the validation pydantic runs when the models are built.     *)
(***************************************************************************)
\* EnrichmentSuggestion.priority: Field(pattern="^(high|medium|low)$")
SuggestionValid(s) == s.priority \in Priorities

\* AnswerResponse.confidence: Field(ge=0, le=1)
ConfidenceValid(c) == FLeq(Frac(0, 1), c) /\ FLeq(c, Frac(1, 1))

(***************************************************************************)
(* LLMService.generate_answer                                              *)
(***************************************************************************)
Verdict(by, r) ==
    [kind |-> "verdict", by |-> by, error |-> "none",
     answer |-> r.answer, confidence |-> r.confidence, sources_used |-> r.sources_used,
     is_complete |-> r.is_complete, missing_information |-> r.missing_information,
     enrichment_suggestions |-> r.enrichment_suggestions]

Raised(by, error) == [Verdict(by, NoRaw) EXCEPT !.kind = "raised", !.error = error]

NoResponse == [Verdict("none", NoRaw) EXCEPT !.kind = "none"]

\* lines 107-127: the raw result is read field by field into an AnswerResponse;
\* nothing is checked but what pydantic checks, and nothing is caught
BuildResponse(by, result) ==
    IF result.shape # "dict" THEN Raised(by, "AttributeError")
    ELSE IF \E i \in 1..Len(result.enrichment_suggestions) :
                ~SuggestionValid(result.enrichment_suggestions[i])
         THEN Raised(by, "ValidationError")
    ELSE IF RequiredKeys \ result.keys # {} THEN Raised(by, "KeyError")
    ELSE IF ~ConfidenceValid(result.confidence) THEN Raised(by, "ValidationError")
    ELSE Verdict(by, result)

\* what the active provider's generate_completion did: rem = [called, threw, raw]
NotCalled == [called |-> FALSE, threw |-> FALSE, raw |-> NoRaw]
Threw == [called |-> TRUE, threw |-> TRUE, raw |-> NoRaw]
Returned(r) == [called |-> TRUE, threw |-> FALSE, raw |-> r]

\* lines 83-127
AnswerOf(p, q, ctxs, rem) ==
    LET user_message == UserMessage(q, ctxs) IN
    IF p = "fallback" THEN BuildResponse("fallback", FallbackGenerate(user_message))
    ELSE IF rem.threw THEN BuildResponse("fallback", FallbackGenerate(user_message))
    ELSE BuildResponse(p, rem.raw)

(***************************************************************************)
(* FeedbackService.  A rating is the Python value handed in: [kind, val].  *)
(* An entry keeps feedback_id, query_id, rating, the echoed query and      *)
(* confidence, and the timestamp.  An optional value is None or Some(x);   *)
(* a timestamp is the reading of the wall clock, a confidence is in        *)
(* hundredths, a query text is a sequence of characters.                   *)
(***************************************************************************)
\* isinstance(rating, int): bool is a subclass of int, True is 1 and False is 0
IsInstanceInt(rating) == rating.kind \in {"int", "bool"}

\* line 93 without its "rating > 5"
RatingAcceptedNoUpperBound(rating) == IsInstanceInt(rating) /\ ~(rating.val < 1)

\* line 93: the ratings store_feedback lets through
RatingAccepted(rating) == IsInstanceInt(rating) /\ ~(rating.val < 1) /\ ~(rating.val > 5)

FbResult(op, outcome, rating, id) == [op |-> op, outcome |-> outcome, rating |-> rating, id |-> id]

NoRating == [kind |-> "none", val |-> 0]

None == [none |-> TRUE]
Some(x) == [none |-> FALSE, val |-> x]

\* the answers of the read side, and none while no read is in hand
Recent(limit, entries) == [limit |-> limit, entries |-> entries]
NoRecent == Recent(0, <<>>)
NoStats == [called |-> FALSE]

\* line 97
NextFeedbackId(data) == Len(data) + 1

\* line 221: the entries whose feedback_id is not the one given
RECURSIVE WithoutId(_, _)
WithoutId(data, id) ==
    IF data = <<>> THEN <<>>
    ELSE (IF Head(data).feedback_id # id THEN <<Head(data)>> ELSE <<>>) \o WithoutId(Tail(data), id)

InitFeedback ==
    /\ feedback_data = <<>>
    /\ feedback_file = <<>>
    /\ fb_result = FbResult("none", "none", NoRating, 0)
    /\ assigned = <<>>
    /\ recent = NoRecent
    /\ stats = NoStats
    /\ clock = 1

\* the rating values a caller may hand in: integers around the range, the two
\* booleans, a float and a string
RatingInputs ==
    {[kind |-> "int", val |-> v] : v \in 0..6}
    \cup {[kind |-> "bool", val |-> 0], [kind |-> "bool", val |-> 1],
          [kind |-> "float", val |-> 3], [kind |-> "str", val |-> 3]}

QueryIds == {1}

FeedbackIds == 1..(MaxStores + 1)

\* the readings of the wall clock datetime.now() gives, line 104
Times == {1, 2}

\* lines 96-105
FeedbackEntry(data, qid, rating, q, confidence, now) ==
    [feedback_id |-> NextFeedbackId(data), query_id |-> qid, rating |-> rating,
     query |-> q, confidence |-> confidence, timestamp |-> now]

\* a rollback that leaves the appended entry in the list
PopNothing(data) == data

\* line 118: self.feedback_data.pop()
Pop(data) == SubSeq(data, 1, Len(data) - 1)

\* lines 93-94: the rating is refused, ValueError goes to the caller
StoreFeedbackRejected ==
    \E qid \in QueryIds, rating \in RatingInputs :
        /\ alive
        /\ ~RatingAccepted(rating)
        /\ fb_result' = FbResult("store", "ValueError", rating, 0)
        /\ recent' = NoRecent
        /\ UNCHANGED <<feedback_data, feedback_file, assigned, stats, clock, answerVars, docVars,
                       procVars>>

\* lines 96-115: the entry is appended and _save_feedback replaces the file
StoreFeedbackSaved ==
    \E qid \in QueryIds, rating \in RatingInputs :
        /\ alive
        /\ RatingAccepted(rating)
        /\ Len(assigned) < MaxStores
        /\ LET entry == FeedbackEntry(feedback_data, qid, rating, None, None, clock) IN
           /\ feedback_data' = Append(feedback_data, entry)
           /\ feedback_file' = feedback_data'
           /\ fb_result' = FbResult("store", "ok", rating, entry.feedback_id)
           /\ assigned' = Append(assigned, entry.feedback_id)
        /\ recent' = NoRecent
        /\ UNCHANGED <<stats, clock, answerVars, docVars, procVars>>

\* lines 96-119: the entry is appended, _save_feedback returns False (the file is
\* as it was), the entry is popped and Exception goes to the caller
StoreFeedbackSaveFails ==
    \E qid \in QueryIds, rating \in RatingInputs :
        /\ alive
        /\ RatingAccepted(rating)
        /\ LET entry == FeedbackEntry(feedback_data, qid, rating, None, None, clock) IN
           /\ feedback_data' = Pop(Append(feedback_data, entry))
           /\ fb_result' = FbResult("store", "Exception", rating, entry.feedback_id)
        /\ recent' = NoRecent
        /\ UNCHANGED <<feedback_file, assigned, stats, clock, answerVars, docVars, procVars>>

\* the files the services write
FeedbackFile == "feedback.json"
FeedbackTmp == "feedback.tmp"
MetadataFile == "metadata.json"

\* lines 96-112 and 46-66: the process dies inside _save_feedback.  Before the
\* replace the bytes went to the temporary file and feedback.json is as it was;
\* from the replace on feedback.json holds the whole new list.
StoreFeedbackCrashes ==
    \E qid \in QueryIds, rating \in RatingInputs, replaced \in BOOLEAN :
        /\ alive
        /\ RatingAccepted(rating)
        /\ LET entry == FeedbackEntry(feedback_data, qid, rating, None, None, clock) IN
           /\ feedback_data' = Append(feedback_data, entry)
           /\ feedback_file' = IF replaced THEN feedback_data' ELSE feedback_file
           /\ fb_result' = FbResult("crash", "none", rating, entry.feedback_id)
        /\ partial' = IF replaced THEN partial ELSE partial \cup {FeedbackTmp}
        /\ alive' = FALSE
        /\ recent' = NoRecent
        /\ UNCHANGED <<assigned, stats, clock, inflight, answerVars, docVars>>

\* lines 219-226: an entry has the id; the list is filtered and saved, whether
\* the save worked is not looked at
DeleteFeedbackFound ==
    \E id \in FeedbackIds, saved \in BOOLEAN :
        /\ alive
        /\ Len(WithoutId(feedback_data, id)) < Len(feedback_data)
        /\ feedback_data' = WithoutId(feedback_data, id)
        /\ feedback_file' = IF saved THEN feedback_data' ELSE feedback_file
        /\ fb_result' = FbResult("delete", "True", NoRating, id)
        /\ recent' = NoRecent
        /\ UNCHANGED <<assigned, stats, clock, answerVars, docVars, procVars>>

\* lines 227-229
DeleteFeedbackNotFound ==
    \E id \in FeedbackIds :
        /\ alive
        /\ ~(Len(WithoutId(feedback_data, id)) < Len(feedback_data))
        /\ feedback_data' = WithoutId(feedback_data, id)
        /\ fb_result' = FbResult("delete", "False", NoRating, id)
        /\ recent' = NoRecent
        /\ UNCHANGED <<feedback_file, assigned, stats, clock, answerVars, docVars, procVars>>

\* get_recent_feedback, lines 129-135: the entries by descending timestamp, the
\* sort is stable so entries of one timestamp keep the list's order; the first
\* limit of them
RECURSIVE SortedByTimestampDesc(_)
SortedByTimestampDesc(data) ==
    IF data = <<>> THEN <<>>
    ELSE LET newest == CHOOSE i \in 1..Len(data) :
                  /\ \A j \in 1..Len(data) : data[j].timestamp <= data[i].timestamp
                  /\ \A j \in 1..(i - 1) : data[j].timestamp < data[i].timestamp
         IN <<data[newest]>> \o
            SortedByTimestampDesc(SubSeq(data, 1, newest - 1) \o SubSeq(data, newest + 1, Len(data)))

RecentFeedback(data, limit) ==
    LET sorted == SortedByTimestampDesc(data) IN SubSeq(sorted, 1, Min(limit, Len(sorted)))

\* the limits a caller asks for
Limits == 1..MaxStores

\* GET /api/feedback/recent
GetRecentFeedback ==
    \E limit \in Limits :
        /\ alive
        /\ recent' = Recent(limit, RecentFeedback(feedback_data, limit))
        /\ fb_result' = FbResult("recent", "ok", NoRating, 0)
        /\ UNCHANGED <<feedback_data, feedback_file, assigned, stats, clock, answerVars, docVars,
                       procVars>>

\* the wall clock is local time of finite resolution: it stands still between two
\* calls that follow closely, it moves on, and it is set back (a correction, the
\* end of daylight saving time)
ClockMoves ==
    /\ alive
    /\ clock' \in Times \ {clock}
    /\ UNCHANGED <<feedback_data, feedback_file, fb_result, assigned, recent, stats,
                   answerVars, docVars, procVars>>

(***************************************************************************)
(* get_feedback_stats.  A text is a sequence of characters.                *)
(***************************************************************************)
Whitespace == {" ", "\t", "\n"}

UpperCase == <<"A", "B", "C", "D", "E", "F", "G", "H", "I", "J", "K", "L", "M",
               "N", "O", "P", "Q", "R", "S", "T", "U", "V", "W", "X", "Y", "Z">>
LowerCase == <<"a", "b", "c", "d", "e", "f", "g", "h", "i", "j", "k", "l", "m",
               "n", "o", "p", "q", "r", "s", "t", "u", "v", "w", "x", "y", "z">>

\* str.lower()
LowerChar(c) ==
    IF \E i \in 1..Len(UpperCase) : UpperCase[i] = c
    THEN LowerCase[CHOOSE i \in 1..Len(UpperCase) : UpperCase[i] = c]
    ELSE c

Lower(text) == [i \in 1..Len(text) |-> LowerChar(text[i])]

\* str.split(): the runs of characters that are not whitespace
RECURSIVE SplitWords(_)
SplitWords(text) ==
    IF text = <<>> THEN <<>>
    ELSE IF Head(text) \in Whitespace THEN SplitWords(Tail(text))
    ELSE LET n == IF \E i \in 1..Len(text) : text[i] \in Whitespace
                  THEN (CHOOSE i \in 1..Len(text) :
                            /\ text[i] \in Whitespace
                            /\ \A j \in 1..(i - 1) : text[j] \notin Whitespace) - 1
                  ELSE Len(text)
         IN <<SubSeq(text, 1, n)>> \o SplitWords(SubSeq(text, n + 1, Len(text)))

RECURSIVE Concat(_)
Concat(ss) == IF ss = <<>> THEN <<>> ELSE Head(ss) \o Concat(Tail(ss))

\* Counter(words): how often a word occurs, and where it occurs first
CountOf(words, w) == Cardinality({i \in 1..Len(words) : words[i] = w})

FirstOf(words, w) == CHOOSE i \in 1..Len(words) : words[i] = w /\ \A j \in 1..(i - 1) : words[j] # w

\* Counter(words).most_common(n): the n words that occur most often, by
\* descending count, words of one count in the order of their first occurrence
MostCommonRank(words, w) ==
    1 + Cardinality({v \in {words[i] : i \in 1..Len(words)} :
                        \/ CountOf(words, v) > CountOf(words, w)
                        \/ CountOf(words, v) = CountOf(words, w)
                               /\ FirstOf(words, v) < FirstOf(words, w)})

MostCommon(words, n) ==
    LET distinct == {words[i] : i \in 1..Len(words)} IN
    [r \in 1..Min(n, Cardinality(distinct)) |->
        CHOOSE w \in distinct : MostCommonRank(words, w) = r]

\* most_common(3), line 200
TopicCandidates == 3

\* len(word) > 3, line 202
TopicMinLength == 3

\* len(low_rated) > 3, line 186
ManyLowRated == 3

StatsSuggestion(text, arg) == [text |-> text, arg |-> arg]

LowConfidence ==
    StatsSuggestion("Low confidence detected in poor answers - upload more relevant documents", 0)
HighConfidence ==
    StatsSuggestion("High confidence but low ratings - consider improving LLM prompts or using a better model", 0)
MultipleLowRated(n) ==
    StatsSuggestion("Multiple low-rated answers - review knowledge base coverage", n)
CommonTopics(topics) ==
    StatsSuggestion("Common topics in low-rated queries - consider adding documents on these topics",
                    topics)
PerformingWell ==
    StatsSuggestion("System is performing well - keep the knowledge base updated", 0)

RECURSIVE SumSeq(_)
SumSeq(ns) == IF ns = <<>> THEN 0 ELSE Head(ns) + SumSeq(Tail(ns))

\* lines 192-202: the queries that are not None and not empty, in lower case,
\* split into words; of the three most common words those that occur more than
\* once and are longer than three characters
LowRatedQueries(low_rated) ==
    LET with_query == SelectSeq(low_rated, LAMBDA f : ~f.query.none /\ f.query.val # <<>>)
    IN [i \in 1..Len(with_query) |-> Lower(with_query[i].query.val)]

LowRatedWords(low_rated) ==
    LET queries == LowRatedQueries(low_rated)
    IN Concat([i \in 1..Len(queries) |-> SplitWords(queries[i])])

Topics(low_rated) ==
    LET words == LowRatedWords(low_rated) IN
    SelectSeq(MostCommon(words, TopicCandidates),
              LAMBDA w : CountOf(words, w) > 1 /\ Len(w) > TopicMinLength)

\* _generate_suggestions, lines 166-208; confidences are in hundredths
GenerateSuggestions(low_rated) ==
    LET with_conf == SelectSeq(low_rated, LAMBDA f : ~f.confidence.none)
        confidences == [i \in 1..Len(with_conf) |-> with_conf[i].confidence.val]
        by_confidence ==
            IF confidences = <<>> THEN <<>>
            ELSE IF SumSeq(confidences) < 40 * Len(confidences) THEN <<LowConfidence>>
            ELSE IF SumSeq(confidences) > 70 * Len(confidences) THEN <<HighConfidence>>
            ELSE <<>>
        by_count ==
            IF Len(low_rated) > ManyLowRated THEN <<MultipleLowRated(Len(low_rated))>> ELSE <<>>
        by_topic ==
            IF Topics(low_rated) # <<>> THEN <<CommonTopics(Topics(low_rated))>> ELSE <<>>
        suggestions ==
            IF Len(low_rated) > 0 THEN by_confidence \o by_count \o by_topic ELSE <<>>
    IN IF suggestions # <<>> THEN suggestions ELSE <<PerformingWell>>

\* round(avg_rating, 2), in hundredths
AverageRating(ratings) == (200 * SumSeq(ratings) + Len(ratings)) \div (2 * Len(ratings))

\* get_feedback_stats, lines 137-164
FeedbackStats(data) ==
    IF data = <<>>
    THEN [called |-> TRUE, total_feedback |-> 0, average_rating |-> 0,
          rating_distribution |-> [i \in 1..5 |-> 0], low_rated_count |-> 0,
          suggestions |-> <<>>]
    ELSE LET ratings == [i \in 1..Len(data) |-> data[i].rating.val]
             low_rated == SelectSeq(data, LAMBDA f : f.rating.val <= 2)
         IN [called |-> TRUE, total_feedback |-> Len(data),
             average_rating |-> AverageRating(ratings),
             rating_distribution |-> [i \in 1..5 |-> CountOf(ratings, i)],
             low_rated_count |-> Len(low_rated),
             high_rated_count |-> Len(SelectSeq(data, LAMBDA f : f.rating.val >= 4)),
             suggestions |-> GenerateSuggestions(low_rated)]

\* GET /api/feedback/stats
GetFeedbackStats ==
    /\ alive
    /\ stats = NoStats
    /\ stats' = FeedbackStats(feedback_data)
    /\ fb_result' = FbResult("stats", "ok", NoRating, 0)
    /\ UNCHANGED <<feedback_data, feedback_file, assigned, recent, clock, answerVars, docVars,
                   procVars>>

NextFeedback ==
    \/ StoreFeedbackRejected
    \/ StoreFeedbackSaved
    \/ StoreFeedbackSaveFails
    \/ StoreFeedbackCrashes
    \/ DeleteFeedbackFound
    \/ DeleteFeedbackNotFound

\* the writes, the recent entries and the clock
NextRecent ==
    \/ NextFeedback
    \/ GetRecentFeedback
    \/ ClockMoves

(***************************************************************************)
(* EmbeddingService: the embedder and the collection.                      *)
(*                                                                         *)
(* A vector is [dim, dir]: dim is the strategy that made it ("remote" for  *)
(* text-embedding-3-small, "local" for all-MiniLM-L6-v2, of different      *)
(* dimensions), dir is its direction, one of three.  The collection is a   *)
(* sequence of entries in insertion order; an add or a query with vectors  *)
(* of another dimension than the collection's raises.                      *)
(***************************************************************************)
DocIds == 1..MaxDocs

RECURSIVE WordSum(_)
WordSum(text) ==
    IF text = <<>> THEN 0
    ELSE (IF Head(text).t = "w" THEN Head(text).v ELSE 0) + WordSum(Tail(text))

\* the embedding model: a fixed map from text to direction
Direction(text) == WordSum(text) % 3

\* cosine distance of two directions, in thousandths: 0 identical, 2000 opposite
CosineDistance(a, b) ==
    IF a = b THEN 0
    ELSE IF {a, b} = {0, 1} THEN 400
    ELSE IF {a, b} = {1, 2} THEN 1400
    ELSE 2000

\* an embedder that keeps use_openai after a failed remote call
GenerateEmbeddingRetrying(text, useOpenai, remote_ok) ==
    [dim |-> IF useOpenai /\ remote_ok THEN "remote" ELSE "local", dir |-> Direction(text),
     use_openai |-> useOpenai, called |-> useOpenai, failed |-> useOpenai /\ ~remote_ok]

\* _generate_embedding: remote_ok tells whether the remote call, if made, works.
\* Gives the vector, the use_openai the call leaves, whether the remote service
\* was called and whether that call failed.
GenerateEmbedding(text, useOpenai, remote_ok) ==
    IF useOpenai /\ remote_ok
    THEN [dim |-> "remote", dir |-> Direction(text), use_openai |-> TRUE,
          called |-> TRUE, failed |-> FALSE]
    ELSE [dim |-> "local", dir |-> Direction(text), use_openai |-> FALSE,
          called |-> useOpenai, failed |-> useOpenai]

\* the text of chunk idx of document d
ChunkText(d, idx) == <<W(d + idx)>>

IndexEntry(d, idx, vec) ==
    [id |-> <<d, idx>>, doc_id |-> d, chunk_id |-> idx, source |-> <<W(10 + d)>>,
     document |-> ChunkText(d, idx), dim |-> vec.dim, dir |-> vec.dir]

\* embed_and_store, lines 104-123: one entry per chunk, idx from 0; the remote
\* call of chunk number fail_at (from 1; 0: none) fails, and with it every later
\* one is local.  Gives [entries, use_openai, remote_calls, failed_at].
RECURSIVE EmbedChunks(_, _, _, _, _)
EmbedChunks(d, n, idx, useOpenai, fail_at) ==
    IF idx >= n
    THEN [entries |-> <<>>, use_openai |-> useOpenai, remote_calls |-> 0, failed_at |-> 0]
    ELSE LET vec == GenerateEmbedding(ChunkText(d, idx), useOpenai, fail_at # idx + 1)
             rest == EmbedChunks(d, n, idx + 1, vec.use_openai, fail_at)
         IN [entries |-> <<IndexEntry(d, idx, vec)>> \o rest.entries,
             use_openai |-> rest.use_openai,
             remote_calls |-> (IF vec.called THEN 1 ELSE 0) + rest.remote_calls,
             failed_at |-> IF vec.failed THEN idx + 1 ELSE rest.failed_at]

\* collection.add, lines 126-131: refused for no entries, for vectors of two
\* dimensions, and for a dimension that is not the collection's
AddRaises(entries, collDim) ==
    \/ entries = <<>>
    \/ \E i \in 1..Len(entries) : entries[i].dim # entries[1].dim
    \/ collDim # "unset" /\ entries[1].dim # collDim

\* a delete that takes the document's first chunk only
DeleteFirstChunkOnly(entries, d) ==
    SelectSeq(entries, LAMBDA e : ~(e.doc_id = d /\ e.chunk_id = 0))

\* delete_document_chunks, lines 182-187: the entries collection.get(where doc_id)
\* names are deleted
RECURSIVE DeleteDocumentChunks(_, _)
DeleteDocumentChunks(entries, d) ==
    IF entries = <<>> THEN <<>>
    ELSE (IF Head(entries).doc_id = d THEN <<>> ELSE <<Head(entries)>>)
             \o DeleteDocumentChunks(Tail(entries), d)

\* collection.query: the entries by ascending distance to the query vector, ties
\* in insertion order; Ranked gives the positions in index
Closer(entries, qdir, i, j) ==
    LET di == CosineDistance(qdir, entries[i].dir)
        dj == CosineDistance(qdir, entries[j].dir)
    IN di < dj \/ (di = dj /\ i < j)

Rank(entries, qdir, i) == 1 + Cardinality({j \in 1..Len(entries) : Closer(entries, qdir, j, i)})

NearestAt(entries, qdir, r) == CHOOSE i \in 1..Len(entries) : Rank(entries, qdir, i) = r

\* a hit whose score is 1 - distance, the division by two left out
SearchHitUnscaled(entry, qdir) ==
    [content |-> entry.document, source |-> entry.source,
     relevance_score |-> 1000 - CosineDistance(qdir, entry.dir),
     chunk_id |-> entry.chunk_id, doc_id |-> entry.doc_id]

\* search, lines 149-177: the hits, each with similarity = 1 - distance / 2
SearchHit(entry, qdir) ==
    [content |-> entry.document, source |-> entry.source,
     relevance_score |-> 1000 - (CosineDistance(qdir, entry.dir) \div 2),
     chunk_id |-> entry.chunk_id, doc_id |-> entry.doc_id]

SearchResults(entries, qdir, top_k) ==
    [r \in 1..Min(top_k, Len(entries)) |-> SearchHit(entries[NearestAt(entries, qdir, r)], qdir)]

\* the query raises when the collection has a dimension and the query vector another
QueryRaises(qvec, collDim) == collDim # "unset" /\ qvec.dim # collDim

\* the outcome of a request: count is the chunks stored, deleted or found
Last(op, doc, status, count) == [op |-> op, doc |-> doc, status |-> status, count |-> count]

\* What a request did: the top_k of a search (0 otherwise), the remote embedding
\* calls it made, which of its embedding calls failed remotely (from 1; 0: none),
\* the dimensions of the vectors it handed to the index, whether the index raised,
\* and for an upload what the loader made of the file ("none" otherwise).
Req(top_k, remote_calls, failed_at, dims, raised) ==
    [top_k |-> top_k, remote_calls |-> remote_calls, failed_at |-> failed_at,
     dims |-> dims, raised |-> raised,
     loaded |-> "none"]

\* the request with what the loader gave for the uploaded file
Loaded(r, text) == [r EXCEPT !.loaded = text]

NoReq == Req(0, 0, 0, {}, FALSE)

\* the requests the event loop can hold at a time
Requests == {1, 2}

\* What is left of a request: its kind ("none": no request), the files an upload
\* has still to take, the document a delete names, the documents an upload has
\* made so far.
InFlight(kind, files, target, docs) ==
    [kind |-> kind, files |-> files, target |-> target, docs |-> docs]

NoRequest == InFlight("none", 0, 0, {})

\* the process has started, no file holds a write cut short, no request has come
InitProc ==
    /\ alive = TRUE
    /\ partial = {}
    /\ inflight = [r \in Requests |-> NoRequest]

InitDocs ==
    /\ metadata = {}
    /\ doc_dirs = {}
    /\ index = <<>>
    /\ coll_dim = "unset"
    /\ use_openai = FALSE
    /\ next_doc = 0
    /\ deleted = {}
    /\ last = Last("none", 0, "none", 0)
    /\ req = NoReq
    /\ demoted = FALSE

(***************************************************************************)
(* Inputs of the answer pipeline.                                          *)
(***************************************************************************)
Envs == [openai : BOOLEAN, gemini : BOOLEAN, geni : BOOLEAN]

\* query texts: plain, holding "Context:\n", holding the no-context sentence
Queries == {<<W(1)>>, <<W(1), CTX, W(2)>>, <<W(1), NRC>>}

SourceA == <<W(10)>>
SourceB == <<W(11)>>

Chunk(content, source, score) ==
    [content |-> content, source |-> source, relevance_score |-> score,
     chunk_id |-> 0, doc_id |-> 0]

\* chunk texts: plain, two lines, holding the no-context sentence, holding
\* "\n\nQuestion: ", holding "Context:\n", holding a line that reads like a source
\* header with a relevance of its own
PlainText == <<W(2), NL, W(3)>>
ForgedText == <<W(2), NL, SRC, COLON, REL, Num(-500), RPAREN>>

\* relevance scores in thousandths; none ends in 5, so the nearest hundredth is
\* the same under every rounding rule
ChunkPool ==
    {Chunk(PlainText, SourceA, s) : s \in {300, 400, 504, 600}}
    \cup {Chunk(PlainText, SourceB, 900),
          Chunk(<<W(2), NRC>>, SourceA, 900),
          Chunk(<<W(2), QSEP, W(3)>>, SourceA, 900),
          Chunk(<<W(2), CTX, W(3)>>, SourceA, 900),
          Chunk(ForgedText, SourceA, 900)}

RECURSIVE SeqsUpTo(_, _)
SeqsUpTo(S, n) ==
    IF n = 0 THEN {<<>>}
    ELSE LET shorter == SeqsUpTo(S, n - 1) IN
         shorter \cup {Append(q, x) : q \in shorter, x \in S}

Contexts == SeqsUpTo(ChunkPool, MaxChunks)

\* what a remote provider may hand back: json.loads of the model's text is any
\* JSON value.  Well-shaped results with every mix of confidence band,
\* completeness flag, gaps and suggestions, and results that are not well shaped.
ShapedResults ==
    {Raw("dict", RequiredKeys, "llm", Hundredths(c), <<SourceA>>, ic, mi, es) :
        c \in {20, 55, 90}, ic \in BOOLEAN,
        mi \in {<<>>, <<"gap">>},
        es \in {<<>>, <<Suggestion(<<W(1)>>, "low")>>, <<Suggestion(<<W(1)>>, "high")>>}}

WellShaped == Raw("dict", RequiredKeys, "llm", Hundredths(90), <<SourceA>>, TRUE, <<>>, <<>>)

UnshapedResults ==
    {[WellShaped EXCEPT !.shape = "list"],
     [WellShaped EXCEPT !.keys = RequiredKeys \ {"confidence"}],
     [WellShaped EXCEPT !.keys = RequiredKeys \ {"reasoning"}],
     [WellShaped EXCEPT !.confidence = Hundredths(150)],
     [WellShaped EXCEPT !.is_complete = FALSE,
                        !.enrichment_suggestions = <<Suggestion(<<W(1)>>, "urgent")>>]}

RemoteResults == ShapedResults \cup UnshapedResults

(***************************************************************************)
(* Specification SpecAnswer: one generate_answer call on any request.      *)
(***************************************************************************)
\* no request in hand, no provider configured
IdleAnswer ==
    /\ env = [openai |-> FALSE, gemini |-> FALSE, geni |-> FALSE]
    /\ provider = CreateFromEnv(env)
    /\ query = <<>>
    /\ context = <<>>
    /\ remote = NotCalled
    /\ response = NoResponse

InitAnswer ==
    /\ env \in Envs
    /\ provider = CreateFromEnv(env)
    /\ query \in Queries
    /\ context \in Contexts
    /\ remote = NotCalled
    /\ response = NoResponse

\* the active provider is the rule-based one
AnswerByFallback ==
    /\ response.kind = "none"
    /\ provider = "fallback"
    /\ remote' = NotCalled
    /\ response' = AnswerOf(provider, query, context, NotCalled)
    /\ UNCHANGED <<env, provider, query, context, feedbackVars, docVars, procVars>>

\* the active provider is remote and its call raises
AnswerRemoteThrows ==
    /\ response.kind = "none"
    /\ provider # "fallback"
    /\ remote' = Threw
    /\ response' = AnswerOf(provider, query, context, Threw)
    /\ UNCHANGED <<env, provider, query, context, feedbackVars, docVars, procVars>>

\* the active provider is remote and its call returns a parsed JSON value
AnswerRemoteReturns ==
    /\ response.kind = "none"
    /\ provider # "fallback"
    /\ \E r \in RemoteResults :
          /\ remote' = Returned(r)
          /\ response' = AnswerOf(provider, query, context, Returned(r))
    /\ UNCHANGED <<env, provider, query, context, feedbackVars, docVars, procVars>>

NextAnswer == AnswerByFallback \/ AnswerRemoteThrows \/ AnswerRemoteReturns

InitSpecAnswer == InitAnswer /\ InitFeedback /\ InitDocs /\ InitProc

SpecAnswer == InitSpecAnswer /\ [][NextAnswer]_vars

(***************************************************************************)
(* Specification SpecFeedback: any sequence of store_feedback and          *)
(* delete_feedback calls on a fresh feedback store.                        *)
(***************************************************************************)
InitSpecFeedback == IdleAnswer /\ InitFeedback /\ InitDocs /\ InitProc

SpecFeedback == InitSpecFeedback /\ [][NextFeedback]_vars

(***************************************************************************)
(* Specification SpecRecent: the same calls, get_recent_feedback among     *)
(* them, while the wall clock moves.  Under SpecFeedback the clock stands  *)
(* still: store_feedback and delete_feedback do not read a timestamp.      *)
(***************************************************************************)
InitSpecRecent == InitSpecFeedback

SpecRecent == InitSpecRecent /\ [][NextRecent]_vars

(***************************************************************************)
(* Specification SpecStats: get_feedback_stats on a FeedbackService that   *)
(* has loaded a history from feedback.json.                                *)
(***************************************************************************)
MaxHistory == 4

\* "is it a data", "Data sets" and "data"
QueryIsItAData == <<"i", "s", " ", "i", "t", " ", "a", " ", "d", "a", "t", "a">>
QueryDataSets == <<"D", "a", "t", "a", " ", "s", "e", "t", "s">>
QueryData == <<"d", "a", "t", "a">>

\* what the stored calls handed in: rating, query and confidence
EchoInputs ==
    {[rating |-> 1, query |-> Some(QueryIsItAData), confidence |-> Some(20)],
     [rating |-> 2, query |-> Some(QueryIsItAData), confidence |-> None],
     [rating |-> 2, query |-> Some(QueryDataSets), confidence |-> Some(90)],
     [rating |-> 1, query |-> None, confidence |-> Some(50)],
     [rating |-> 3, query |-> Some(QueryData), confidence |-> Some(20)],
     [rating |-> 5, query |-> Some(<<>>), confidence |-> Some(90)]}

\* the list a sequence of accepted store_feedback calls leaves
RECURSIVE History(_)
History(inputs) ==
    IF inputs = <<>> THEN <<>>
    ELSE LET before == History(SubSeq(inputs, 1, Len(inputs) - 1))
             in == inputs[Len(inputs)]
         IN Append(before, FeedbackEntry(before, 1, [kind |-> "int", val |-> in.rating],
                                         in.query, in.confidence, 1))

Histories == {History(inputs) : inputs \in UNION {[1..n -> EchoInputs] : n \in 0..MaxHistory}}

InitSpecStats ==
    /\ IdleAnswer /\ InitDocs /\ InitProc
    /\ feedback_data \in Histories
    /\ feedback_file = feedback_data
    /\ fb_result = FbResult("none", "none", NoRating, 0)
    /\ assigned = <<>>
    /\ recent = NoRecent
    /\ stats = NoStats
    /\ clock = 1

NextStats == GetFeedbackStats

SpecStats == InitSpecStats /\ [][NextStats]_vars

(***************************************************************************)
(* DocumentService and main.py's handlers.  A handler runs from its first  *)
(* line to its return without giving up the event loop (its one await that *)
(* suspends, file.read(), comes before anything is touched), so a request  *)
(* is one step; last, query, context, remote and response hold what the    *)
(* request in hand came to, until Respond hands it to the caller.          *)
(***************************************************************************)
Idle == alive /\ last.op = "none"

MetadataIds(meta) == {m.document_id : m \in meta}

\* a save that writes the new record over the records that were there
MetadataWithOnly(meta, d, n) == {[document_id |-> d, num_chunks |-> n]}

\* save_and_process, lines 141-149
MetadataWith(meta, d, n) == meta \cup {[document_id |-> d, num_chunks |-> n]}

\* a delete that drops every record
MetadataWithoutAny(meta, d) == {}

\* delete_document, line 185
MetadataWithout(meta, d) == {m \in meta : m.document_id # d}

\* POST /api/documents/upload, one file: save_file raises, with the document
\* directory made or not; doc_id is not bound yet, nothing is cleaned up
SaveFileFails ==
    /\ next_doc' = next_doc + 1
    /\ \E dir_made \in BOOLEAN :
          doc_dirs' = IF dir_made THEN doc_dirs \cup {next_doc'} ELSE doc_dirs
    /\ last' = Last("upload", next_doc', "error", 0)
    /\ req' = NoReq
    /\ UNCHANGED <<metadata, index, coll_dim, use_openai, deleted, demoted,
                   answerVars, feedbackVars>>

\* the same as a request of its own, while document ids are left
UploadSaveFileFails == Idle /\ next_doc < MaxDocs /\ SaveFileFails /\ UNCHANGED procVars

\* one file: process_document raises (unsupported type, nothing loaded); the
\* clean-up's delete_document finds no metadata for the id and does nothing
ProcessFails ==
    /\ next_doc' = next_doc + 1
    /\ doc_dirs' = doc_dirs \cup {next_doc'}
    /\ last' = Last("upload", next_doc', "error", 0)
    /\ \E text \in {"unsupported", "nothing"} : req' = Loaded(NoReq, text)
    /\ UNCHANGED <<metadata, index, coll_dim, use_openai, deleted, demoted,
                   answerVars, feedbackVars>>

UploadProcessFails == Idle /\ next_doc < MaxDocs /\ ProcessFails /\ UNCHANGED procVars

\* process_document, lines 112-120: what loader.load() gave and the loader did not
\* refuse: documents of no text at all ("empty"), of whitespace only ("blank"),
\* or with words ("text").  The check of line 114 lets all three pass.
LoadedTexts == {"empty", "blank", "text"}

\* text_splitter.split_documents, line 120: the splitter strips each chunk and
\* drops the empty ones, so text without words gives no chunk and text with
\* words at least one
SplitCounts(text) == IF text = "text" THEN 1..MaxChunksPerDoc ELSE {0}

\* one file: save_and_process returns n chunks and has written the metadata;
\* embed_and_store embeds them and adds them, or raises and the file is reported
\* under errors
Processed ==
    /\ next_doc' = next_doc + 1
    /\ doc_dirs' = doc_dirs \cup {next_doc'}
    /\ \E text \in LoadedTexts, n \in 0..MaxChunksPerDoc, fail_at \in 0..MaxChunksPerDoc :
          /\ n \in SplitCounts(text)
          /\ fail_at <= n
          /\ fail_at # 0 => use_openai
          /\ metadata' = MetadataWith(metadata, next_doc', n)
          /\ LET emb == EmbedChunks(next_doc', n, 0, use_openai, fail_at) IN
             /\ use_openai' = emb.use_openai
             /\ demoted' = (demoted \/ emb.failed_at # 0)
             /\ req' = Loaded(Req(0, emb.remote_calls, emb.failed_at,
                                  {emb.entries[i].dim : i \in 1..Len(emb.entries)},
                                  AddRaises(emb.entries, coll_dim)), text)
             /\ IF AddRaises(emb.entries, coll_dim)
                THEN /\ UNCHANGED index
                     \* a refused first add may or may not have fixed the dimension
                     /\ coll_dim' \in {coll_dim} \cup
                            (IF coll_dim = "unset" /\ emb.entries # <<>>
                             THEN {emb.entries[1].dim} ELSE {})
                     /\ last' = Last("upload", next_doc', "error", 0)
                ELSE /\ index' = index \o emb.entries
                     /\ coll_dim' = emb.entries[1].dim
                     /\ last' = Last("upload", next_doc', "success", n)
    /\ UNCHANGED <<deleted, answerVars, feedbackVars>>

UploadProcessed == Idle /\ next_doc < MaxDocs /\ Processed /\ UNCHANGED procVars

\* the ids a delete request may name: those drawn so far, and 0, never drawn
DeleteTargets == 0..next_doc

\* DELETE /api/documents/{id}, the id is in the metadata: the chunks go, then
\* the directory and the metadata; rmtree may raise, and then delete_document
\* returns False with the metadata kept
DeleteKnownOf(d) ==
    \E rmtree_ok \in BOOLEAN :
        /\ d \in MetadataIds(metadata)
        /\ index' = DeleteDocumentChunks(index, d)
        /\ deleted' = deleted \cup {d}
        /\ IF rmtree_ok \/ d \notin doc_dirs
           THEN /\ doc_dirs' = doc_dirs \ {d}
                /\ metadata' = MetadataWithout(metadata, d)
                /\ last' = Last("delete", d, "200", Len(index) - Len(index'))
           ELSE /\ UNCHANGED <<doc_dirs, metadata>>
                /\ last' = Last("delete", d, "500", Len(index) - Len(index'))
        /\ req' = NoReq
        /\ UNCHANGED <<coll_dim, use_openai, next_doc, demoted, answerVars, feedbackVars>>

DeleteKnown == \E d \in DeleteTargets : Idle /\ DeleteKnownOf(d) /\ UNCHANGED procVars

\* the id is not in the metadata: the chunks go, delete_document returns False,
\* the 404 raised inside the try is caught by its except and becomes a 500
DeleteUnknownOf(d) ==
    /\ d \notin MetadataIds(metadata)
    /\ index' = DeleteDocumentChunks(index, d)
    /\ deleted' = deleted \cup {d}
    /\ last' = Last("delete", d, "500", Len(index) - Len(index'))
    /\ req' = NoReq
    /\ UNCHANGED <<metadata, doc_dirs, coll_dim, use_openai, next_doc, demoted,
                   answerVars, feedbackVars>>

DeleteUnknown == \E d \in DeleteTargets : Idle /\ DeleteUnknownOf(d) /\ UNCHANGED procVars

\* save_and_process, line 149, and _save_metadata, lines 40-46: the process dies
\* inside _save_metadata.  open(..., 'w') empties metadata.json and the
\* bytes go into it: cut is whether the crash came between the open and the last
\* byte.  The directory is made, the record is in the (lost) memory, nothing is
\* in the index yet.
UploadCrashesInSave ==
    \E n \in 0..MaxChunksPerDoc, cut \in BOOLEAN :
        /\ Idle
        /\ next_doc < MaxDocs
        /\ next_doc' = next_doc + 1
        /\ doc_dirs' = doc_dirs \cup {next_doc'}
        /\ metadata' = MetadataWith(metadata, next_doc', n)
        /\ partial' = IF cut THEN partial \cup {MetadataFile} ELSE partial
        /\ alive' = FALSE
        /\ last' = Last("upload", next_doc', "crash", 0)
        /\ req' = NoReq
        /\ UNCHANGED <<index, coll_dim, use_openai, deleted, demoted, inflight, answerVars,
                       feedbackVars>>

\* delete_document, line 186: the same inside a delete, after the chunks, the
\* directory and the record are gone
DeleteCrashesInSave ==
    \E d \in DeleteTargets, cut \in BOOLEAN :
        /\ Idle
        /\ d \in MetadataIds(metadata)
        /\ index' = DeleteDocumentChunks(index, d)
        /\ deleted' = deleted \cup {d}
        /\ doc_dirs' = doc_dirs \ {d}
        /\ metadata' = MetadataWithout(metadata, d)
        /\ partial' = IF cut THEN partial \cup {MetadataFile} ELSE partial
        /\ alive' = FALSE
        /\ last' = Last("delete", d, "crash", Len(index) - Len(index'))
        /\ req' = NoReq
        /\ UNCHANGED <<coll_dim, use_openai, next_doc, demoted, inflight, answerVars,
                       feedbackVars>>

\* what the active provider may do in a search request
ProviderOutcomes(p) == IF p = "fallback" THEN {NotCalled} ELSE {Threw, Returned(WellShaped)}

TopKs == 1..MaxChunks

\* str.strip(): the text without the whitespace at its two ends
RECURSIVE LStrip(_)
LStrip(text) ==
    IF text # <<>> /\ Head(text) = SP THEN LStrip(Tail(text)) ELSE text

RECURSIVE RStrip(_)
RStrip(text) ==
    IF text # <<>> /\ text[Len(text)] = SP THEN RStrip(SubSeq(text, 1, Len(text) - 1)) ELSE text

Strip(text) == LStrip(RStrip(text))

\* SearchRequest.query has min_length=1: the request is refused with 422 before
\* the handler runs
SchemaRejects(q) == Len(q) < 1

\* a handler that looks for the empty query only
HandlerRejectsEmptyOnly(q) == q = <<>>

\* main.py line 104: not request.query or len(request.query.strip()) == 0
HandlerRejects(q) == q = <<>> \/ Len(Strip(q)) = 0

\* the query texts of a search request: those of Queries, one of them padded with
\* whitespace, the empty text and texts of whitespace only
BlankQueries == {<<>>, <<SP>>, <<SP, SP>>}
SearchQueries == Queries \cup {<<SP, W(1), SP>>} \cup BlankQueries

\* POST /api/search with a query the schema or the handler's first lines refuse:
\* 422 or 400, search and generate_answer are not called
SearchRejected ==
    \E q \in SearchQueries :
        /\ Idle
        /\ SchemaRejects(q) \/ HandlerRejects(q)
        /\ query' = q
        /\ last' = Last("search", 0, IF SchemaRejects(q) THEN "422" ELSE "400", 0)
        /\ req' = NoReq
        /\ UNCHANGED <<env, provider, context, remote, response, metadata, doc_dirs, index,
                       coll_dim, use_openai, next_doc, deleted, demoted, feedbackVars, procVars>>

\* POST /api/search: search, then generate_answer on what it found; an error of
\* either becomes a 500
SearchKnowledgeBase ==
    \E q \in SearchQueries, top_k \in TopKs, remote_ok \in BOOLEAN,
       rem \in ProviderOutcomes(provider) :
        /\ Idle
        /\ ~SchemaRejects(q) /\ ~HandlerRejects(q)
        /\ remote_ok => use_openai
        /\ LET qvec == GenerateEmbedding(q, use_openai, remote_ok) IN
           /\ use_openai' = qvec.use_openai
           /\ demoted' = (demoted \/ qvec.failed)
           /\ req' = Req(top_k, IF qvec.called THEN 1 ELSE 0, IF qvec.failed THEN 1 ELSE 0,
                         {qvec.dim}, QueryRaises(qvec, coll_dim))
           /\ query' = q
           /\ IF QueryRaises(qvec, coll_dim)
              THEN /\ context' = <<>>
                   /\ remote' = NotCalled
                   /\ response' = NoResponse
                   /\ last' = Last("search", 0, "500", 0)
              ELSE /\ context' = SearchResults(index, qvec.dir, top_k)
                   /\ remote' = rem
                   /\ response' = AnswerOf(provider, q, context', rem)
                   /\ last' = Last("search", 0, IF response'.kind = "verdict" THEN "200" ELSE "500",
                                   Len(context'))
        /\ UNCHANGED <<env, provider, metadata, doc_dirs, index, coll_dim, next_doc, deleted,
                       feedbackVars, procVars>>

\* the handler returns: the caller has the outcome, the request's locals are gone
Respond ==
    /\ alive
    /\ last.op # "none"
    /\ last' = Last("none", 0, "none", 0)
    /\ req' = NoReq
    /\ query' = <<>>
    /\ context' = <<>>
    /\ remote' = NotCalled
    /\ response' = NoResponse
    /\ UNCHANGED <<env, provider, metadata, doc_dirs, index, coll_dim, use_openai, next_doc,
                   deleted, demoted, feedbackVars, procVars>>

NextDocs ==
    \/ Respond
    \/ UploadSaveFileFails
    \/ UploadProcessFails
    \/ UploadProcessed
    \/ DeleteKnown
    \/ DeleteUnknown
    \/ UploadCrashesInSave
    \/ DeleteCrashesInSave
    \/ SearchKnowledgeBase
    \/ SearchRejected

(***************************************************************************)
(* Specification SpecDocs: any sequence of upload, delete and search       *)
(* requests on fresh storage, with no remote provider or with OpenAI, and  *)
(* with either embedding strategy active after construction.  The provider *)
(* is OpenAI for an OPENAI_API_KEY that starts with "sk-", the embedder is *)
(* remote for one that starts with "skt-": never both.                     *)
(***************************************************************************)
InitSpecDocs ==
    /\ env \in {[openai |-> FALSE, gemini |-> FALSE, geni |-> FALSE],
                [openai |-> TRUE, gemini |-> FALSE, geni |-> FALSE]}
    /\ provider = CreateFromEnv(env)
    /\ query = <<>>
    /\ context = <<>>
    /\ remote = NotCalled
    /\ response = NoResponse
    /\ InitFeedback
    /\ metadata = {}
    /\ doc_dirs = {}
    /\ index = <<>>
    /\ coll_dim = "unset"
    /\ use_openai \in BOOLEAN
    /\ use_openai => ~env.openai
    /\ next_doc = 0
    /\ deleted = {}
    /\ last = Last("none", 0, "none", 0)
    /\ req = NoReq
    /\ demoted = FALSE
    /\ InitProc

SpecDocs == InitSpecDocs /\ [][NextDocs]_vars

(***************************************************************************)
(* Specification SpecConcurrent: two requests at a time, uploads of one or *)
(* more files and deletes.  The handlers are coroutines on one event loop: *)
(* another request runs only where a handler awaits.  upload_documents     *)
(* awaits file.read() at the head of each file's loop body, line 66; its   *)
(* await of save_and_process (line 69, and save_file at line 135) reaches  *)
(* no further await, so from there to the end of the loop body it runs     *)
(* without a break.  delete_document awaits nothing.                       *)
(***************************************************************************)
MaxFiles == 2    \* files in one upload request

\* the other request
Other(r) == CHOOSE o \in Requests : o # r

\* an upload request arrives
BeginUpload(r) ==
    \E files \in 1..MaxFiles :
        /\ Idle
        /\ inflight[r].kind = "none"
        /\ inflight' = [inflight EXCEPT ![r] = InFlight("upload", files, 0, {})]
        /\ UNCHANGED <<alive, partial, answerVars, feedbackVars, docVars>>

\* a delete request arrives, for an id the other request does not name and has
\* not drawn
BeginDelete(r) ==
    \E d \in DeleteTargets :
        /\ Idle
        /\ inflight[r].kind = "none"
        /\ d # inflight[Other(r)].target
        /\ d \notin inflight[Other(r)].docs
        /\ inflight' = [inflight EXCEPT ![r] = InFlight("delete", 0, d, {})]
        /\ UNCHANGED <<alive, partial, answerVars, feedbackVars, docVars>>

\* upload_documents, lines 63-85: the loop body for the next file, from the
\* return of file.read() to the append to results or errors
UploadNextFile(r) ==
    /\ Idle
    /\ inflight[r].kind = "upload"
    /\ next_doc < MaxDocs
    /\ SaveFileFails \/ ProcessFails \/ Processed
    /\ inflight' = [inflight EXCEPT ![r] =
                       IF @.files = 1 THEN NoRequest
                       ELSE InFlight("upload", @.files - 1, 0, @.docs \cup {next_doc'})]
    /\ UNCHANGED <<alive, partial>>

\* delete_document, lines 171-187, from its first line to its last
RunDelete(r) ==
    /\ Idle
    /\ inflight[r].kind = "delete"
    /\ DeleteKnownOf(inflight[r].target) \/ DeleteUnknownOf(inflight[r].target)
    /\ inflight' = [inflight EXCEPT ![r] = NoRequest]
    /\ UNCHANGED <<alive, partial>>

NextConcurrent ==
    \/ Respond
    \/ \E r \in Requests : BeginUpload(r)
    \/ \E r \in Requests : BeginDelete(r)
    \/ \E r \in Requests : UploadNextFile(r)
    \/ \E r \in Requests : RunDelete(r)

\* the local embedding model from the start (no OPENAI_API_KEY): the embedding
\* calls of a file make no remote call, so they cannot fail part of the way
InitSpecConcurrent == InitSpecDocs /\ ~env.openai /\ ~use_openai

SpecConcurrent == InitSpecConcurrent /\ [][NextConcurrent]_vars

(***************************************************************************)
(* Properties of generate_answer, read under SpecAnswer.                   *)
(***************************************************************************)
\* the call in hand has ended with an AnswerResponse handed to the caller
IsVerdict == response.kind = "verdict"

\* C1: when the remote provider's call fails, generate_answer still returns a
\* verdict, the rule-based provider's, and raises nothing to the caller.
\* Refuted: a chunk whose text holds a line reading "[Source ...: Relevance: -5)"
\* drags the rule-based confidence below 0 and AnswerResponse refuses it.
C1_FailedRemoteEndsInRuleBasedVerdict ==
    (remote.called /\ remote.threw) => (IsVerdict /\ response.by = "fallback")

\* a raw result is well shaped: a JSON object with every key generate_answer
\* reads, a confidence in [0, 1] and suggestion priorities from the three
ResultWellShaped(r) ==
    /\ r.shape = "dict"
    /\ RequiredKeys \subseteq r.keys
    /\ FLeq(Frac(0, 1), r.confidence) /\ FLeq(r.confidence, Frac(1, 1))
    /\ \A i \in 1..Len(r.enrichment_suggestions) :
          r.enrichment_suggestions[i].priority \in Priorities

\* C2: a remote result that is not well shaped (a key missing, a confidence
\* outside [0, 1], a priority outside high/medium/low, not an object) is treated
\* as a failure of that provider, and the caller still gets a verdict.
\* Refuted: the error of reading such a result goes to the caller.
C2_MalformedResultStillAnswered ==
    (remote.called /\ ~remote.threw /\ ~ResultWellShaped(remote.raw)) => IsVerdict

\* C3: a verdict with is_complete true has no missing_information and no
\* enrichment_suggestions.  Refuted: a remote result is handed on as it came.
C3_CompleteVerdictHasNoGaps ==
    (IsVerdict /\ response.is_complete)
        => (response.missing_information = <<>> /\ response.enrichment_suggestions = <<>>)

(***************************************************************************)
(* Properties of the feedback store, read under SpecFeedback.              *)
(***************************************************************************)
\* C4: the feedback_ids handed out grow strictly from one accepted store to
\* the next, and no id is handed out twice, deletions in between or not.
\* Refuted: the id is the list's length plus one, so store, delete, store
\* hands out 1 twice.
C4_FeedbackIdsStrictlyIncrease ==
    \A i \in 1..Len(assigned), j \in 1..Len(assigned) : i < j => assigned[i] < assigned[j]

\* the claim's ratings: an integer (True is the integer 1 to Python) from 1 to 5
ValidRating(rating) == rating.kind \in {"int", "bool"} /\ rating.val \in 1..5

\* store_feedback has refused the rating and touched nothing
StoreRefused ==
    /\ fb_result'.outcome = "ValueError"
    /\ feedback_data' = feedback_data
    /\ feedback_file' = feedback_file

\* store_feedback has appended an entry with the rating and the file holds the list
StorePersisted ==
    /\ fb_result'.outcome = "ok"
    /\ Len(feedback_data') = Len(feedback_data) + 1
    /\ SubSeq(feedback_data', 1, Len(feedback_data)) = feedback_data
    /\ feedback_data'[Len(feedback_data')].rating = fb_result'.rating
    /\ feedback_file' = feedback_data'

\* the write failed: store_feedback has raised, list and file are as they were
StoreRolledBack ==
    /\ fb_result'.outcome = "Exception"
    /\ feedback_data' = feedback_data
    /\ feedback_file' = feedback_file

\* C5, as amended: store_feedback with a rating outside 1..5 or a non-integer
\* rating is rejected with a validation error and leaves list and file unchanged;
\* every integer rating 1..5 passes, and is accepted and persisted unless the
\* write of the file fails, in which case the call raises and list and file are
\* as before.
C5_RatingValidationOrRollback ==
    [][fb_result'.op = "store" =>
          IF ValidRating(fb_result'.rating) THEN StorePersisted \/ StoreRolledBack
          ELSE StoreRefused]_vars

\* C5 as stated: every integer rating 1..5 is accepted and persisted
C5_EveryValidRatingPersisted ==
    [][fb_result'.op = "store" =>
          IF ValidRating(fb_result'.rating) THEN StorePersisted ELSE StoreRefused]_vars

\* a valid rating whose write failed, after an earlier one was persisted
C5_WitnessRolledBackStore ==
    /\ fb_result.op = "store" /\ fb_result.outcome = "Exception"
    /\ ValidRating(fb_result.rating)
    /\ feedback_file # <<>> /\ feedback_file = feedback_data

(***************************************************************************)
(* Properties of the documents and the index, read under SpecDocs.         *)
(***************************************************************************)
\* C6: delete_document_chunks(d) removes exactly the index entries whose doc_id
\* is d and leaves the other documents' entries as they were; after it no
\* search returns a chunk of d, and the index holds none.
C6_DeleteRemovesExactlyTheDocument ==
    /\ [][last'.op = "delete" =>
             index' = SelectSeq(index, LAMBDA e : e.doc_id # last'.doc)]_vars
    /\ [](\A i \in 1..Len(context) : context[i].doc_id \notin deleted)
    /\ [](\A i \in 1..Len(index) : index[i].doc_id \notin deleted)

\* a delete has taken several entries and another document's are still there
C6_WitnessDeleteAmongOthers ==
    /\ last.op = "delete" /\ last.count > 1
    /\ index # <<>>

C8_EmptyIndexAnswer ==
    (last.op = "search" /\ index = <<>> /\ ~SchemaRejects(query) /\ ~HandlerRejects(query)) =>
        /\ last.status = "200"
        /\ context = <<>>
        /\ response.by = "fallback" =>
              /\ response.confidence = Frac(1, 10)
              /\ ~response.is_complete
              /\ Len(response.enrichment_suggestions) = 1
              /\ response.enrichment_suggestions[1].priority = "high"

(***************************************************************************)
(* The confidence bands, read under SpecAnswer.                            *)
(***************************************************************************)
\* C9: a verdict with confidence in [0.4, 0.7] has is_complete false and at
\* least one missing_information item; one with confidence above 0.7 has
\* is_complete true; the rule-based provider's verdicts as the remote ones'.
\* Refuted: the rule-based provider sets is_complete for any confidence above 0.5.
C9_ConfidenceBandsMidAndHigh ==
    IsVerdict =>
        /\ (FLeq(Frac(4, 10), response.confidence) /\ FLeq(response.confidence, Frac(7, 10)))
              => (~response.is_complete /\ response.missing_information # <<>>)
        /\ FLess(Frac(7, 10), response.confidence) => response.is_complete

\* C10: a verdict with confidence below 0.4 has is_complete false and at least
\* one enrichment suggestion of priority high or medium.
\* Refuted: a remote result is handed on as it came.
C10_ConfidenceBandLow ==
    (IsVerdict /\ FLess(response.confidence, Frac(4, 10))) =>
        /\ ~response.is_complete
        /\ \E i \in 1..Len(response.enrichment_suggestions) :
              response.enrichment_suggestions[i].priority \in {"high", "medium"}

\* the mean of the retrieved chunks' relevance scores (thousandths), as a fraction
RECURSIVE ScoreSum(_)
ScoreSum(ctxs) == IF ctxs = <<>> THEN 0 ELSE Head(ctxs).relevance_score + ScoreSum(Tail(ctxs))

MeanRelevance(ctxs) == Frac(ScoreSum(ctxs), 1000 * Len(ctxs))

\* C11: for a non-empty retrieval context the rule-based provider's confidence
\* is min(mean of the chunks' relevance scores, 0.65) and is_complete is
\* (confidence > 0.5); confidence 0.5 gives is_complete false, and confidence
\* never exceeds 0.65.
\* Refuted: the provider averages the scores it reads back from the prompt text,
\* where they stand rounded to two decimals (0.504 reads 0.50) and next to
\* whatever the chunks' own text holds.
C11_RuleBasedConfidenceIsCappedMean ==
    (IsVerdict /\ response.by = "fallback" /\ context # <<>>) =>
        /\ FEq(response.confidence, FMin(MeanRelevance(context), Hundredths(ConfidenceCap)))
        /\ response.is_complete <=> FLess(Frac(1, 2), response.confidence)
        /\ FLeq(response.confidence, Hundredths(ConfidenceCap))

(***************************************************************************)
(* Failed writes of the feedback file, read under SpecFeedback.            *)
(***************************************************************************)
\* C12: when the write of the file fails during store_feedback, the in-memory
\* list is again what it was before the call, the error goes to the caller and
\* the file is unchanged; a successful store_feedback right after it gets the id
\* the failed one would have had.
C12_FailedStoreIsRolledBack ==
    /\ [][(fb_result'.op = "store" /\ fb_result'.outcome = "Exception") =>
             /\ feedback_data' = feedback_data
             /\ feedback_file' = feedback_file
             /\ assigned' = assigned]_vars
    /\ [][(fb_result.op = "store" /\ fb_result.outcome = "Exception"
              /\ fb_result'.op = "store" /\ fb_result'.outcome = "ok") =>
             fb_result'.id = fb_result.id]_vars

\* a store has failed on a list that holds an entry; its id would have been 2
C12_WitnessFailedStoreAfterEntry ==
    /\ fb_result.op = "store" /\ fb_result.outcome = "Exception"
    /\ Len(feedback_data) = 1
    /\ fb_result.id = Len(feedback_data) + 1

\* C13: a failed write during delete_feedback (as during the metadata saves) is
\* rolled back in memory and surfaced, so the in-memory list and the file never
\* differ once a call has returned.
\* Refuted: delete_feedback does not look at what _save_feedback returns; the
\* entry is gone from the list, still in the file, and the call returns True.
C13_ListAndFileNeverDiverge == alive => feedback_file = feedback_data

(***************************************************************************)
(* Crashes during a write, read under SpecDocs.                            *)
(***************************************************************************)
\* the files that are read back at the next start
LiveFiles == {FeedbackFile, MetadataFile}

\* C14: every write of persisted state goes to a temporary file that then
\* replaces the target, so a crash during a write leaves each live file with
\* the whole old or the whole new content, never a part.
\* Refuted: _save_metadata opens metadata.json itself for writing.
C14_LiveFilesNeverPartial == partial \cap LiveFiles = {}

DimensionsInPlay ==
    (req.dims \cup {index[i].dim : i \in 1..Len(index)} \cup {coll_dim}) \ {"unset"}

\* C16: the vectors of one EmbeddingService have one dimension: those handed
\* to the index in one insert, those stored and the query vector compared with
\* them never have two.
\* Refuted: a remote failure inside a batch leaves the batch with the remote
\* vectors made before it and local ones after it; after a demotion the query
\* vector is local while the stored ones are remote.
C16_OneDimension == Cardinality(DimensionsInPlay) <= 1

\* C17: a failure of the remote embedding service inside an upload or a search
\* does not fail the request: the embedder goes local and the request succeeds,
\* also when the index holds remote vectors.
\* Refuted: the index refuses the vectors of the other dimension.
C17_RemoteFailureNeverFailsTheRequest ==
    req.failed_at # 0 => last.status \in {"success", "200"}

(***************************************************************************)
(* The provider chain, read under SpecAnswer.                              *)
(***************************************************************************)
\* the remote providers that are configured and initialise
AvailableProviders == {p \in {"openai", "gemini", "geni"} : env[p]}

\* the remote providers whose generate_completion this call has run
TriedProviders == IF remote.called THEN {provider} ELSE {}

\* C18: within one query the providers are tried in the order OpenAI, Gemini,
\* Geni, rule-based; a failed call moves on to the next available one, and the
\* rule-based provider answers only after every available remote provider has
\* been tried and has failed for that query.
\* Refuted: only the first available provider is kept at startup; when its call
\* fails the rule-based provider answers at once.
C18_RuleBasedOnlyAfterEveryRemote ==
    (response.kind # "none" /\ response.by = "fallback") =>
        AvailableProviders \subseteq TriedProviders

(***************************************************************************)
(* Search results, read under SpecDocs.                                    *)
(***************************************************************************)
\* C19: for a non-empty index and a top_k above the number of indexed chunks,
\* search returns at most that number of results and raises no error.
\* Refuted: once the embedder has gone local over an index of remote vectors
\* the query raises, whatever top_k is.
C19_TopKAboveCountIsServed ==
    (last.op = "search" /\ index # <<>> /\ req.top_k > Len(index)) =>
        (~req.raised /\ Len(context) <= Len(index))

\* C20: every relevance_score a search returns is 1 - distance/2 of the cosine
\* distance between the query and the chunk it names (distance 0.4 gives 0.8),
\* lies in [0,1], the results are in descending order of relevance_score, and no
\* result carries the distance itself.  Scores and distances are in thousandths.
C20_RelevanceIsOneMinusHalfDistance ==
    (last.op = "search" /\ ~req.raised) =>
        /\ \A i \in 1..Len(context) :
              /\ \E j \in 1..Len(index) :
                    /\ index[j].doc_id = context[i].doc_id
                    /\ index[j].chunk_id = context[i].chunk_id
                    /\ context[i].relevance_score =
                           1000 - (CosineDistance(Direction(query), index[j].dir) \div 2)
              /\ context[i].relevance_score \in 0..1000
              /\ "distance" \notin DOMAIN context[i]
        /\ \A i \in 1..(Len(context) - 1) :
              context[i].relevance_score >= context[i + 1].relevance_score

\* a search that found an identical chunk first and one at distance 0.4 second
C20_WitnessTwoRankedHits ==
    /\ last.op = "search"
    /\ ~req.raised
    /\ Len(context) = 2
    /\ context[1].relevance_score = 1000
    /\ context[2].relevance_score = 800

(***************************************************************************)
(* The read side of the feedback store, read under SpecRecent.             *)
(***************************************************************************)
\* the last n entries of the list, the last one first
RECURSIVE NewestFirst(_, _)
NewestFirst(data, n) ==
    IF n = 0 \/ data = <<>> THEN <<>>
    ELSE <<data[Len(data)]>> \o NewestFirst(SubSeq(data, 1, Len(data) - 1), n - 1)

\* C22: a rating in 1..5 for a query_id no answer ever carried is accepted, and
\* get_recent_feedback(limit=1) right after it returns exactly the entry just
\* stored; get_recent_feedback(n) returns the n most recently stored entries,
\* newest first.
\* Refuted: the entries are ordered by their timestamp, a wall-clock reading, not
\* by the order they were stored in.
C22_RecentIsTheLastStored ==
    [][fb_result'.op = "recent" =>
          /\ recent'.entries = NewestFirst(feedback_data, recent'.limit)
          /\ (fb_result.op = "store" /\ fb_result.outcome = "ok" /\ recent'.limit = 1) =>
                 recent'.entries = <<feedback_data[Len(feedback_data)]>>]_vars

(***************************************************************************)
(* get_feedback_stats, read under SpecStats.                               *)
(***************************************************************************)
NoLowRated == \A i \in 1..Len(feedback_data) : feedback_data[i].rating.val > 2

\* C21: for every history without an entry of rating <= 2, the empty history
\* among them, get_feedback_stats returns the default "performing well" message
\* as its suggestions.
\* Refuted: for the empty history the suggestions are the empty list.
C21_NoLowRatedGivesPerformingWell ==
    (stats.called /\ NoLowRated) => stats.suggestions = <<PerformingWell>>

\* the words of the low-rated entries' queries, in lower case as the code counts
\* them, and the words the "common topics" suggestion names
LowRated == SelectSeq(feedback_data, LAMBDA f : f.rating.val <= 2)

SurfacedTopics ==
    UNION {{s.arg[i] : i \in 1..Len(s.arg)} :
               s \in {stats.suggestions[k] : k \in {j \in 1..Len(stats.suggestions) :
                          stats.suggestions[j].text = CommonTopics(<<>>).text}}}

\* C25: every word longer than three characters that occurs more than once
\* across the queries of the entries rated <= 2 is named in the "common topics"
\* suggestion, whatever other words the queries contain.
\* Refuted: only the three most common words are looked at.
C25_RecurringWordsAreSurfaced ==
    stats.called =>
        \A i \in 1..Len(LowRatedWords(LowRated)) :
            LET w == LowRatedWords(LowRated)[i] IN
            (Len(w) > 3 /\ CountOf(LowRatedWords(LowRated), w) > 1) => w \in SurfacedTopics

(***************************************************************************)
(* Requests the handlers refuse or fail, read under SpecDocs.              *)
(***************************************************************************)
\* C23: a search request whose query is empty or whitespace only is answered
\* with a validation error, a client error (4xx) and not a server error, and
\* neither the retrieval nor the answer generation runs for it: no embedding is
\* made, no provider is called, there is no answer.
C23_BlankQueryIsRefused ==
    (last.op = "search" /\ \A i \in 1..Len(query) : query[i] = SP) =>
        /\ last.status \in {"400", "422"}
        /\ req = NoReq
        /\ context = <<>>
        /\ remote = NotCalled
        /\ response = NoResponse

\* a query of whitespace has been refused while the index holds chunks
C23_WitnessWhitespaceRefused ==
    /\ last.op = "search"
    /\ query = <<SP, SP>>
    /\ last.status = "400"
    /\ index # <<>>

\* C27: a delete request for a document_id that is not in the metadata is
\* answered 404 "Document not found", not 500.
\* Refuted: the handler raises the 404 inside its own try, whose except turns
\* every exception into a 500.
C27_UnknownDocumentIsNotFound ==
    [][(last'.op = "delete" /\ last'.status # "crash"
            /\ last'.doc \notin MetadataIds(metadata)) =>
          last'.status = "404"]_vars

\* the chunks process_document made of the uploaded file
ChunksMade == {m.num_chunks : m \in {r \in metadata : r.document_id = last.doc}}

\* C26: a document whose loader yields no text at all is answered with an error,
\* a document with non-empty text never gives zero chunks, and every upload
\* reported as success has at least one chunk.
\* Refuted: text of whitespace only is split into zero chunks, with no error
\* from process_document.
C26_NoTextIsAnErrorAndTextGivesChunks ==
    (last.op = "upload" /\ last.status # "crash") =>
        /\ req.loaded \in {"nothing", "empty"} => last.status = "error"
        /\ req.loaded \in {"blank", "text"} => (ChunksMade # {} /\ \A n \in ChunksMade : n >= 1)
        /\ last.status = "success" => last.count >= 1

EntriesOf(d) == SelectSeq(index, LAMBDA e : e.doc_id = d)

\* C28: a file reported under the response's errors leaves no trace, neither a
\* metadata record (so list documents does not return it) nor index entries;
\* and every document the metadata lists with num_chunks = n has exactly n index
\* entries.
\* Refuted: the metadata record is written before embed_and_store runs and is not
\* taken back when embed_and_store raises.
C28_FailedUploadLeavesNoTrace ==
    /\ (last.op = "upload" /\ last.status = "error") =>
           (last.doc \notin MetadataIds(metadata) /\ EntriesOf(last.doc) = <<>>)
    /\ alive => \A m \in metadata : Len(EntriesOf(m.document_id)) = m.num_chunks

\* C29: when save_and_process fails after the file was saved (process_document
\* raises for an unsupported type or for nothing loaded), its clean-up removes
\* the document directory: after the failed call the document has no directory
\* on disk without a metadata record.
\* Refuted: the clean-up is delete_document, which does nothing for an id that is
\* not in the metadata, and the record is only written after process_document.
C29_FailedProcessingRemovesTheDirectory ==
    (last.op = "upload" /\ last.status = "error" /\ req.loaded \in {"unsupported", "nothing"}) =>
        ~(last.doc \in doc_dirs /\ last.doc \notin MetadataIds(metadata))

(***************************************************************************)
(* The rule-based provider and the prompt, read under SpecAnswer.          *)
(***************************************************************************)
\* the rule-based provider's no-context response
NoContextResponse ==
    /\ response.answer = "no_context"
    /\ response.confidence = Frac(1, 10)
    /\ response.sources_used = <<>>

\* C30: the rule-based provider returns its no-context response (confidence 0.1,
\* no sources) exactly when the context handed to generate_answer is empty,
\* whatever the chunks and the query say, "No relevant context found",
\* "Context:" and "Question: " included.
\* Refuted: the provider reads the context back out of the prompt's text.
C30_NoContextResponseIffEmptyContext ==
    (response.kind = "verdict" /\ response.by = "fallback") =>
        (NoContextResponse <=> context = <<>>)

(***************************************************************************)
(* Concurrent requests, read under SpecConcurrent.                         *)
(***************************************************************************)
\* the metadata record and the index entries of document d, in a state
RecordOf(meta, d) == {m \in meta : m.document_id = d}
ChunksOf(entries, d) == SelectSeq(entries, LAMBDA e : e.doc_id = d)

\* the request that takes the step, and the one document the step is about
StepOf(r) == inflight[r].kind # "none" /\ inflight'[r] # inflight[r]
DocumentOf(r) == IF inflight[r].kind = "upload" THEN next_doc' ELSE inflight[r].target

\* C24: two requests on different documents run concurrently, upload with
\* upload, upload with delete, delete with delete.  Whatever the interleaving at
\* their suspension points, a step of one request leaves the metadata record and
\* the index entries of every other document as they were, and what it leaves of
\* its own document is what the request leaves when it runs alone: a file
\* reported as success has its record and as many entries as chunks, a delete
\* answered 200 has removed record and entries.  So each document ends as if the
\* two requests had run one after the other, and no request loses or overwrites
\* what the other has written.
C24_ConcurrentRequestsDoNotInterfere ==
    [][\A r \in Requests : StepOf(r) =>
          /\ \A d \in (0..MaxDocs) \ {DocumentOf(r)} :
                /\ RecordOf(metadata', d) = RecordOf(metadata, d)
                /\ ChunksOf(index', d) = ChunksOf(index, d)
          /\ (last'.op = "upload" /\ last'.status = "success") =>
                /\ RecordOf(metadata', last'.doc)
                       = {[document_id |-> last'.doc, num_chunks |-> last'.count]}
                /\ Len(ChunksOf(index', last'.doc)) = last'.count
          /\ (last'.op = "delete" /\ last'.status = "200") =>
                /\ RecordOf(metadata', last'.doc) = {}
                /\ ChunksOf(index', last'.doc) = <<>>]_vars

\* between the two files of an upload the other request has deleted a stored
\* document; the upload's first document and its chunks are in place
C24_WitnessDeleteBetweenTwoFiles ==
    /\ last.op = "delete" /\ last.status = "200" /\ last.count > 0
    /\ \E r \in Requests :
          /\ inflight[r].kind = "upload" /\ inflight[r].files = 1
          /\ \E d \in inflight[r].docs :
                /\ RecordOf(metadata, d) # {}
                /\ ChunksOf(index, d) # <<>>
                /\ d < last.doc

====
